---- MODULE Spec2Model ----
(***************************************************************************)
(* Model of skate's scheduling engine (src/src/scheduler.rs): the          *)
(* placement decision DefaultScheduler::plan, the dispatcher               *)
(* DefaultScheduler::schedule_one and the batch loop                       *)
(* DefaultScheduler::schedule, over a ClusterState snapshot.                *)
(* With it, FileStore (src/src/filestore.rs) over a directory tree and     *)
(* PodLister::list (src/src/get.rs) over the same kind of snapshot.        *)
(*                                                                         *)
(* Rust values are modelled as follows.                                    *)
(*   Option<T>     None is <<>>, Some(x) is <<x>>                          *)
(*   Vec<T>        a sequence                                              *)
(*   struct        a record with the struct's field names                  *)
(*   HashMap<K,V>  a function whose DOMAIN is the set of keys present      *)
(***************************************************************************)
EXTENDS Integers, Sequences, FiniteSets, TLC

VARIABLES
    state,      \* the ClusterState snapshot handed to schedule (&ClusterState)
    conns,      \* SshClients: the node names find() has a client for
    objects,    \* the input Vec<SupportedResources>
    results,    \* the Vec<ScheduleResult> built by schedule
    plans,      \* per resource handled so far: Some(its ApplyPlan), None if plan() was not reached
    calls,      \* the calls made on SshClients and on its clients, in order
    pc          \* where the batch call is

vars == <<state, conns, objects, results, plans, calls, pc>>

----------------------------------------------------------------------------
(* Option<T> *)

None == <<>>

Some(x) == <<x>>

IsSome(o) == o # <<>>

Unwrap(o) == o[1]

UnwrapOr(o, d) == IF IsSome(o) THEN o[1] ELSE d

----------------------------------------------------------------------------
(* Bounds of the input families *)

\* nodes per snapshot in the family that exercises the placement scan
ScanNodes == 3

\* nodes per snapshot in the family that exercises locate
LocNodes == 2

\* pod instances per node in the family that exercises locate
LocPods == 2

\* pod instances per node in the family that exercises the placement scan
ScanPods == 2

----------------------------------------------------------------------------
(* PodmanPodInfo and its label accessors (skatelet/system.rs) *)

NamespaceLabel == "skate.io/namespace"

DeploymentLabel == "skate.io/deployment"

LabelOr(p, key, default) == IF key \in DOMAIN p.labels THEN p.labels[key] ELSE default

namespace(p) == LabelOr(p, NamespaceLabel, "")

deployment(p) == LabelOr(p, DeploymentLabel, "")

PodInfo(id, name, labels) == [id |-> id, name |-> name, labels |-> labels]

DeployLabels(ns, d) == (NamespaceLabel :> ns) @@ (DeploymentLabel :> d)

\* The pod instances telemetry can report, in the order a node lists them.
PodPool ==
    << PodInfo("p1", "api-1", DeployLabels("default", "api")),
       PodInfo("p2", "web", (NamespaceLabel :> "default")),
       PodInfo("p3", "api-2", DeployLabels("default", "api")),
       PodInfo("p4", "api-3", DeployLabels("default", "api")),
       PodInfo("p5", "web", DeployLabels("other", "api")) >>

RECURSIVE PickPods(_, _)
PickPods(S, i) ==
    IF i > Len(PodPool) THEN <<>>
    ELSE (IF i \in S THEN <<PodPool[i]>> ELSE <<>>) \o PickPods(S, i + 1)

\* podman pod names are unique on one host
UniqueNames(l) == \A i, j \in 1..Len(l) : l[i].name = l[j].name => i = j

\* pod lists over the first `width` pods of the pool, at most `max` long
PodLists(width, max) ==
    { l \in { PickPods(S, 1) : S \in { T \in SUBSET (1..width) : Cardinality(T) <= max } } :
        UniqueNames(l) }

----------------------------------------------------------------------------
(* NodeState and ClusterState (state/state.rs, as used by scheduler.rs) *)

\* host_info: Option<HostInfoResponse>, system_info: Option<SystemInfo>,
\* pods: Option<Vec<PodmanPodInfo>>
HostInfoOf(pods) == Some([system_info |-> Some([pods |-> pods])])

HostInfos(width, max) ==
    { None, Some([system_info |-> None]), HostInfoOf(None) }
        \cup { HostInfoOf(Some(l)) : l \in PodLists(width, max) }

NodeName(i) == "node-" \o ToString(i)

\* the Refresher marks a node it could not reach Unhealthy, with no host_info
NodeStateOf(i, h) ==
    [node_name |-> NodeName(i),
     status |-> IF h = None THEN "Unhealthy" ELSE "Healthy",
     host_info |-> h]

Snapshots(n, H) ==
    { [nodes |-> [i \in DOMAIN f |-> NodeStateOf(i, f[i])]] :
        f \in UNION { [1..k -> H] : k \in 0..n } }

ScanSnapshots == Snapshots(ScanNodes, HostInfos(ScanPods, ScanPods))

LocSnapshots == Snapshots(LocNodes, HostInfos(Len(PodPool), LocPods))

----------------------------------------------------------------------------
(* SupportedResources: Pod(p) | Deployment(d), with p.metadata / d.metadata *)

Resource(kind, name, ns, ok) ==
    [kind |-> kind, metadata |-> [name |-> name, namespace |-> ns], serializes |-> ok]

PlanResources ==
    { Resource("Pod", Some("web"), Some("default"), TRUE),
      Resource("Pod", Some("web"), None, TRUE),
      Resource("Pod", Some("api"), Some("default"), TRUE),
      Resource("Deployment", Some("api"), Some("default"), TRUE),
      Resource("Deployment", Some("api"), None, TRUE) }

----------------------------------------------------------------------------
(* ClusterState::locate_pod and ClusterState::locate_deployment.           *)
(* Each yields the set of values the call may return: which hosting node   *)
(* is reported with the resource is left open.                             *)

PodsOf(node) ==
    IF node.host_info = None THEN <<>>
    ELSE IF Unwrap(node.host_info).system_info = None THEN <<>>
    ELSE UnwrapOr(Unwrap(Unwrap(node.host_info).system_info).pods, <<>>)

RECURSIVE SelectPods(_, _, _, _)
SelectPods(l, i, d, ns) ==
    IF i > Len(l) THEN <<>>
    ELSE (IF deployment(l[i]) = d /\ namespace(l[i]) = ns THEN <<l[i]>> ELSE <<>>)
            \o SelectPods(l, i + 1, d, ns)

RECURSIVE CollectPods(_, _, _, _)
CollectPods(nodes, i, d, ns) ==
    IF i > Len(nodes) THEN <<>>
    ELSE SelectPods(PodsOf(nodes[i]), 1, d, ns) \o CollectPods(nodes, i + 1, d, ns)

locate_pod(st, name, ns) ==
    LET found == { <<PodsOf(st.nodes[i])[j], st.nodes[i]>> :
                     <<i, j>> \in { <<a, b>> \in (1..Len(st.nodes)) \X (1..Len(PodPool)) :
                                      /\ b <= Len(PodsOf(st.nodes[a]))
                                      /\ PodsOf(st.nodes[a])[b].name = name
                                      /\ namespace(PodsOf(st.nodes[a])[b]) = ns } }
    IN  IF found = {} THEN {None} ELSE { Some(f) : f \in found }

locate_deployment(st, name, ns) ==
    LET pods == CollectPods(st.nodes, 1, name, ns)
        hosts == { i \in 1..Len(st.nodes) : SelectPods(PodsOf(st.nodes[i]), 1, name, ns) # <<>> }
    IN  IF pods = <<>> THEN {None} ELSE { Some(<<pods, st.nodes[i]>>) : i \in hosts }

----------------------------------------------------------------------------
(* DefaultScheduler::plan *)

\* existing_resource with a missing namespace read as "default" instead of ""
existing_resource_default_ns(st, object) ==
    LET name == UnwrapOr(object.metadata.name, "")
        ns == UnwrapOr(object.metadata.namespace, "default")
    IN  IF object.kind = "Pod"
        THEN { IF r = None THEN None
               ELSE Some([kind |-> "Pod", resource |-> Unwrap(r)[1], node |-> Unwrap(r)[2]]) :
               r \in locate_pod(st, name, ns) }
        ELSE { IF r = None THEN None
               ELSE Some([kind |-> "Deployment", resource |-> Unwrap(r)[1], node |-> Unwrap(r)[2]]) :
               r \in locate_deployment(st, name, ns) }

\* existing_resource with name and namespace passed to locate_deployment in the wrong order
existing_resource_swapped_args(st, object) ==
    LET name == UnwrapOr(object.metadata.name, "")
        ns == UnwrapOr(object.metadata.namespace, "")
    IN  IF object.kind = "Pod"
        THEN { IF r = None THEN None
               ELSE Some([kind |-> "Pod", resource |-> Unwrap(r)[1], node |-> Unwrap(r)[2]]) :
               r \in locate_pod(st, name, ns) }
        ELSE { IF r = None THEN None
               ELSE Some([kind |-> "Deployment", resource |-> Unwrap(r)[1], node |-> Unwrap(r)[2]]) :
               r \in locate_deployment(st, ns, name) }

\* match object { Pod(p) => locate_pod(..).map(..), Deployment(d) => locate_deployment(..).map(..) }
existing_resource(st, object) ==
    LET name == UnwrapOr(object.metadata.name, "")
        ns == UnwrapOr(object.metadata.namespace, "")
    IN  IF object.kind = "Pod"
        THEN { IF r = None THEN None
               ELSE Some([kind |-> "Pod", resource |-> Unwrap(r)[1], node |-> Unwrap(r)[2]]) :
               r \in locate_pod(st, name, ns) }
        ELSE { IF r = None THEN None
               ELSE Some([kind |-> "Deployment", resource |-> Unwrap(r)[1], node |-> Unwrap(r)[2]]) :
               r \in locate_deployment(st, name, ns) }

current_node(existing) ==
    IF existing = None THEN None ELSE Some(Unwrap(existing).node)

\* node.host_info.and_then(system_info.and_then(pods.and_then(len))).unwrap_or(0)
node_pods(node) ==
    IF node.host_info = None THEN 0
    ELSE IF Unwrap(node.host_info).system_info = None THEN 0
    ELSE IF Unwrap(Unwrap(node.host_info).system_info).pods = None THEN 0
    ELSE Len(Unwrap(Unwrap(Unwrap(node.host_info).system_info).pods))

\* prev_node.host_info.and_then(system_info.and_then(pods)): None at any absent level
prev_pods(prev_node) ==
    IF prev_node.host_info = None THEN None
    ELSE IF Unwrap(prev_node.host_info).system_info = None THEN None
    ELSE Unwrap(Unwrap(prev_node.host_info).system_info).pods

\* fold_step with the fallback to the candidate only when there is no previous choice
fold_step_no_fallback(maybe_prev_node, node) ==
    IF maybe_prev_node = None THEN Some(node)
    ELSE IF prev_pods(Unwrap(maybe_prev_node)) = None THEN None
    ELSE IF Len(Unwrap(prev_pods(Unwrap(maybe_prev_node)))) < node_pods(node)
         THEN Some(Unwrap(maybe_prev_node))
         ELSE Some(node)

\* fold_step with the previous choice kept when the candidate has as many pods
fold_step_keeps_on_tie(maybe_prev_node, node) ==
    LET kept ==
            IF maybe_prev_node = None THEN None
            ELSE IF prev_pods(Unwrap(maybe_prev_node)) = None THEN None
            ELSE IF Len(Unwrap(prev_pods(Unwrap(maybe_prev_node)))) <= node_pods(node)
                 THEN Some(Unwrap(maybe_prev_node))
                 ELSE Some(node)
    IN  IF kept = None THEN Some(node) ELSE kept

\* the closure folded over state.nodes
fold_step(maybe_prev_node, node) ==
    LET kept ==
            IF maybe_prev_node = None THEN None
            ELSE IF prev_pods(Unwrap(maybe_prev_node)) = None THEN None
            ELSE IF Len(Unwrap(prev_pods(Unwrap(maybe_prev_node)))) < node_pods(node)
                 THEN Some(Unwrap(maybe_prev_node))
                 ELSE Some(node)
    IN  IF kept = None THEN Some(node) ELSE kept

RECURSIVE fold_nodes(_, _, _)
fold_nodes(nodes, i, acc) ==
    IF i > Len(nodes) THEN acc ELSE fold_nodes(nodes, i + 1, fold_step(acc, nodes[i]))

select_next(st, current) == fold_nodes(st.nodes, 1, current)

\* the ApplyPlans plan(state, object) may return
plan(st, object) ==
    { [current |-> e, next |-> select_next(st, current_node(e))] : e \in existing_resource(st, object) }

----------------------------------------------------------------------------
(* The placement decision on its own: plan applied to one resource *)

\* the plans computed so far, with the resource each is for
Planned == { k \in 1..Len(plans) : IsSome(plans[k]) }

PlanAt(k) == Unwrap(plans[k])

InitPlan ==
    /\ state \in ScanSnapshots \cup LocSnapshots
    /\ objects \in { <<o>> : o \in PlanResources }
    /\ conns = { state.nodes[i].node_name : i \in 1..Len(state.nodes) }
    /\ results = <<>>
    /\ plans = <<>>
    /\ calls = <<>>
    /\ pc = "plan"

PlanOne ==
    /\ pc = "plan"
    /\ Len(plans) < Len(objects)
    /\ \E p \in plan(state, objects[Len(plans) + 1]) : plans' = Append(plans, Some(p))
    /\ UNCHANGED <<state, conns, objects, results, calls, pc>>

NextPlan == PlanOne

SpecPlan == InitPlan /\ [][NextPlan]_vars

----------------------------------------------------------------------------
(* Text: a String is the sequence of its characters *)

NL == "\n"

RECURSIVE replace_newlines(_)
\* builder.replace("\n", "\\n"): every line break becomes the two characters \ and n
replace_newlines(text) ==
    IF text = <<>> THEN <<>>
    ELSE (IF Head(text) = NL THEN <<"\\", "n">> ELSE <<Head(text)>>) \o replace_newlines(Tail(text))

\* scheduled_detail with the line breaks replaced before stderr is appended
scheduled_detail_escapes_stdout_only(stdout, stderr) ==
    IF Len(stderr) > 0
    THEN replace_newlines(stdout)
            \o <<" ", "(", " ", "s", "t", "d", "e", "r", "r", ":", " ">> \o stderr \o <<" ", ")">>
    ELSE replace_newlines(stdout)

\* stdout, then " ( stderr: {} )" when stderr is not empty, with line breaks escaped
scheduled_detail(stdout, stderr) ==
    LET builder ==
            IF Len(stderr) > 0
            THEN stdout \o <<" ", "(", " ", "s", "t", "d", "e", "r", "r", ":", " ">> \o stderr \o <<" ", ")">>
            ELSE stdout
    IN  replace_newlines(builder)

----------------------------------------------------------------------------
(* Status, ScheduleResult and the remote side of schedule_one *)

Scheduled(detail) == [tag |-> "Scheduled", text |-> detail]

ScheduleError(message) == [tag |-> "Error", text |-> message]

ScheduleResult(object, node_name, status) ==
    [object |-> object, node_name |-> node_name, status |-> status]

\* serde_yaml::to_string(&object): the manifest text of a resource, or an error
serialized(object) ==
    IF object.serializes
    THEN [ok |-> TRUE, text |-> <<"yaml", object.kind, object.metadata.name, object.metadata.namespace>>]
    ELSE [ok |-> FALSE, text |-> "serialization failed"]

\* what client.apply_resource(&serialized).await may come back with
ApplyOutcomes ==
    { [ok |-> TRUE, stdout |-> <<"o", "k", NL>>, stderr |-> <<"w">>],
      [ok |-> FALSE, err |-> "apply failed"] }

\* remove_existing: returns Ok(()) and calls nothing
remove_existing(clients, resource) == [ok |-> TRUE, calls |-> <<>>]

FindCall(k, node_name) == [op |-> "find", idx |-> k, node |-> node_name]

ApplyCall(k, node_name, manifest) ==
    [op |-> "apply_resource", idx |-> k, node |-> node_name, manifest |-> manifest]

\* the return of an apply_resource call, with what it returned
ApplyReturned(k, node_name, result) ==
    [op |-> "apply_resource_return", idx |-> k, node |-> node_name, result |-> result]

----------------------------------------------------------------------------
(* Input families of the batch call *)

\* resources per batch
MaxBatch == 3

\* nodes per snapshot
BatchNodes == 2

BatchHostInfos ==
    { None,
      HostInfoOf(Some(<<PodPool[1], PodPool[2]>>)) }

BatchSnapshots == Snapshots(BatchNodes, BatchHostInfos)

BatchResources ==
    { Resource("Pod", Some("web"), Some("default"), TRUE),
      Resource("Deployment", Some("api"), Some("default"), TRUE),
      Resource("Pod", Some("web"), Some("default"), FALSE) }

NodeNames(st) == { st.nodes[i].node_name : i \in 1..Len(st.nodes) }

----------------------------------------------------------------------------
(* DefaultScheduler::schedule and DefaultScheduler::schedule_one.          *)
(* schedule_one runs from the head of the loop to its await on             *)
(* apply_resource in one step, and from the return of apply_resource to    *)
(* the push of the result in another.                                      *)

Init ==
    /\ state \in BatchSnapshots
    /\ objects \in UNION { [1..n -> BatchResources] : n \in 0..MaxBatch }
    /\ conns \in { NodeNames(state),
                    { state.nodes[i].node_name : i \in 1..(Len(state.nodes) - 1) } }
    /\ results = <<>>
    /\ plans = <<>>
    /\ calls = <<>>
    /\ pc = "loop"

\* the index of the resource the loop is at
Current == Len(results) + 1

\* ScheduleOneSerializeError with the plan computed before the serialization is looked at
ScheduleOneSerializeError_plans_first ==
    /\ pc = "loop"
    /\ Current <= Len(objects)
    /\ ~serialized(objects[Current]).ok
    /\ results' = Append(results, ScheduleResult(objects[Current], "",
                                 ScheduleError(serialized(objects[Current]).text)))
    /\ \E p \in plan(state, objects[Current]) : plans' = Append(plans, Some(p))
    /\ UNCHANGED <<state, conns, objects, calls, pc>>

\* serialization fails: the result is returned at once
ScheduleOneSerializeError ==
    /\ pc = "loop"
    /\ Current <= Len(objects)
    /\ ~serialized(objects[Current]).ok
    /\ results' = Append(results, ScheduleResult(objects[Current], "",
                                 ScheduleError(serialized(objects[Current]).text)))
    /\ plans' = Append(plans, None)
    /\ UNCHANGED <<state, conns, objects, calls, pc>>

\* ScheduleOneNoNode with the failure propagated out of the batch loop
ScheduleOneNoNode_aborts ==
    /\ pc = "loop"
    /\ Current <= Len(objects)
    /\ serialized(objects[Current]).ok
    /\ \E p \in plan(state, objects[Current]) :
          /\ p.next = None
          /\ plans' = Append(plans, Some(p))
    /\ results' = Append(results, ScheduleResult(objects[Current], "",
                                 ScheduleError("failed to find schedulable node")))
    /\ pc' = "returned"
    /\ UNCHANGED <<state, conns, objects, calls>>

\* plan.next is None: the result is returned at once
ScheduleOneNoNode ==
    /\ pc = "loop"
    /\ Current <= Len(objects)
    /\ serialized(objects[Current]).ok
    /\ \E p \in plan(state, objects[Current]) :
          /\ p.next = None
          /\ plans' = Append(plans, Some(p))
    /\ results' = Append(results, ScheduleResult(objects[Current], "",
                                 ScheduleError("failed to find schedulable node")))
    /\ UNCHANGED <<state, conns, objects, calls, pc>>

\* ScheduleOneDispatch with apply_resource started and not awaited
ScheduleOneDispatch_does_not_await ==
    /\ pc = "loop"
    /\ Current <= Len(objects)
    /\ serialized(objects[Current]).ok
    /\ \E p \in plan(state, objects[Current]) :
          /\ p.next # None
          /\ plans' = Append(plans, Some(p))
          /\ Unwrap(p.next).node_name \in conns
          /\ calls' = calls \o <<FindCall(Current, Unwrap(p.next).node_name),
                                  ApplyCall(Current, Unwrap(p.next).node_name,
                                            serialized(objects[Current]).text)>>
          /\ results' = Append(results, ScheduleResult(objects[Current],
                                      Unwrap(p.next).node_name, Scheduled(<<>>)))
    /\ UNCHANGED <<state, conns, objects, pc>>

\* ScheduleOneDispatch with the manifest of the batch's first resource sent for every resource
ScheduleOneDispatch_sends_first_manifest ==
    /\ pc = "loop"
    /\ Current <= Len(objects)
    /\ serialized(objects[Current]).ok
    /\ \E p \in plan(state, objects[Current]) :
          /\ p.next # None
          /\ plans' = Append(plans, Some(p))
          /\ LET next_node == Unwrap(p.next)
                 found == Append(calls, FindCall(Current, next_node.node_name))
             IN  IF next_node.node_name \in conns
                 THEN /\ calls' = Append(found, ApplyCall(Current, next_node.node_name,
                                        <<"yaml", objects[1].kind, objects[1].metadata.name,
                                          objects[1].metadata.namespace>>))
                      /\ pc' = "apply"
                 ELSE /\ calls' = found
                      /\ pc' = "panicked"
    /\ UNCHANGED <<state, conns, objects, results>>

\* cleanup, conns.find(..).unwrap() and the call of apply_resource
ScheduleOneDispatch ==
    /\ pc = "loop"
    /\ Current <= Len(objects)
    /\ serialized(objects[Current]).ok
    /\ \E p \in plan(state, objects[Current]) :
          /\ p.next # None
          /\ plans' = Append(plans, Some(p))
          /\ LET next_node == Unwrap(p.next)
                 cleanup_result == IF IsSome(p.current)
                                   THEN remove_existing(conns, Unwrap(p.current))
                                   ELSE [ok |-> TRUE, calls |-> <<>>]
                 found == calls \o cleanup_result.calls
                            \o <<FindCall(Current, next_node.node_name)>>
             IN  IF next_node.node_name \in conns
                 THEN /\ calls' = Append(found, ApplyCall(Current, next_node.node_name,
                                                          serialized(objects[Current]).text))
                      /\ pc' = "apply"
                 ELSE /\ calls' = found
                      /\ pc' = "panicked"
    /\ UNCHANGED <<state, conns, objects, results>>

\* the Status built from what apply_resource returned
status_of(result) ==
    IF result.ok THEN Scheduled(scheduled_detail(result.stdout, result.stderr))
    ELSE ScheduleError(result.err)

\* apply_resource returns one of `outcomes`: the result is built and pushed
ApplyReturnWith(outcomes) ==
    /\ pc = "apply"
    /\ \E result \in outcomes :
          /\ results' = Append(results, ScheduleResult(objects[Current],
                            Unwrap(PlanAt(Current).next).node_name, status_of(result)))
          /\ calls' = Append(calls, ApplyReturned(Current,
                            Unwrap(PlanAt(Current).next).node_name, result))
    /\ pc' = "loop"
    /\ UNCHANGED <<state, conns, objects, plans>>

\* ApplyReturn with the failure of apply_resource reported as Scheduled
ApplyReturn_always_scheduled ==
    /\ pc = "apply"
    /\ \E result \in ApplyOutcomes :
          /\ results' = Append(results, ScheduleResult(objects[Current],
                            Unwrap(PlanAt(Current).next).node_name,
                            IF result.ok THEN status_of(result) ELSE Scheduled(<<>>)))
          /\ calls' = Append(calls, ApplyReturned(Current,
                            Unwrap(PlanAt(Current).next).node_name, result))
    /\ pc' = "loop"
    /\ UNCHANGED <<state, conns, objects, plans>>

\* ApplyReturn with the node name left empty when apply_resource failed
ApplyReturn_error_without_node ==
    /\ pc = "apply"
    /\ \E result \in ApplyOutcomes :
          /\ results' = Append(results, ScheduleResult(objects[Current],
                            IF result.ok THEN Unwrap(PlanAt(Current).next).node_name ELSE "",
                            status_of(result)))
          /\ calls' = Append(calls, ApplyReturned(Current,
                            Unwrap(PlanAt(Current).next).node_name, result))
    /\ pc' = "loop"
    /\ UNCHANGED <<state, conns, objects, plans>>

\* ApplyReturn with the new result put in front of the earlier ones
ApplyReturn_prepends ==
    /\ pc = "apply"
    /\ \E result \in ApplyOutcomes :
          /\ results' = <<ScheduleResult(objects[Current],
                            Unwrap(PlanAt(Current).next).node_name, status_of(result))>> \o results
          /\ calls' = Append(calls, ApplyReturned(Current,
                            Unwrap(PlanAt(Current).next).node_name, result))
    /\ pc' = "loop"
    /\ UNCHANGED <<state, conns, objects, plans>>

\* ApplyReturn with a failure of apply_resource propagated out of the batch call
ApplyReturn_propagates_failure ==
    /\ pc = "apply"
    /\ \E result \in ApplyOutcomes :
          /\ calls' = Append(calls, ApplyReturned(Current,
                            Unwrap(PlanAt(Current).next).node_name, result))
          /\ IF result.ok
             THEN /\ results' = Append(results, ScheduleResult(objects[Current],
                                Unwrap(PlanAt(Current).next).node_name, status_of(result)))
                  /\ pc' = "loop"
             ELSE /\ results' = results
                  /\ pc' = "failed"
    /\ UNCHANGED <<state, conns, objects, plans>>

\* ApplyReturn with a successful placement counted in the snapshot
ApplyReturn_counts_placement ==
    /\ pc = "apply"
    /\ \E result \in ApplyOutcomes :
          /\ results' = Append(results, ScheduleResult(objects[Current],
                            Unwrap(PlanAt(Current).next).node_name, status_of(result)))
          /\ calls' = Append(calls, ApplyReturned(Current,
                            Unwrap(PlanAt(Current).next).node_name, result))
          /\ state' = IF result.ok
                      THEN [nodes |-> [i \in 1..Len(state.nodes) |->
                                IF state.nodes[i].node_name = Unwrap(PlanAt(Current).next).node_name
                                THEN [state.nodes[i] EXCEPT !.host_info =
                                        HostInfoOf(Some(Append(PodsOf(state.nodes[i]),
                                            PodInfo("new", "placed", (NamespaceLabel :> "default")))))]
                                ELSE state.nodes[i]]]
                      ELSE state
    /\ pc' = "loop"
    /\ UNCHANGED <<conns, objects, plans>>

\* ApplyReturn with one more apply_resource call after a failure
ApplyReturn_retries_once ==
    /\ pc = "apply"
    /\ \E result \in ApplyOutcomes :
          LET returned == Append(calls, ApplyReturned(Current,
                              Unwrap(PlanAt(Current).next).node_name, result))
              first == Cardinality({ c \in 1..Len(calls) :
                          calls[c].op = "apply_resource" /\ calls[c].idx = Current }) = 1
          IN  IF ~result.ok /\ first
              THEN /\ calls' = Append(returned, ApplyCall(Current,
                                    Unwrap(PlanAt(Current).next).node_name,
                                    serialized(objects[Current]).text))
                   /\ results' = results
                   /\ pc' = "apply"
              ELSE /\ calls' = returned
                   /\ results' = Append(results, ScheduleResult(objects[Current],
                                    Unwrap(PlanAt(Current).next).node_name, status_of(result)))
                   /\ pc' = "loop"
    /\ UNCHANGED <<state, conns, objects, plans>>

ApplyReturn == ApplyReturnWith(ApplyOutcomes)

\* the loop is over: Ok(results)
Return ==
    /\ pc = "loop"
    /\ Current > Len(objects)
    /\ pc' = "returned"
    /\ UNCHANGED <<state, conns, objects, results, plans, calls>>

Next ==
    \/ ScheduleOneSerializeError
    \/ ScheduleOneNoNode
    \/ ScheduleOneDispatch
    \/ ApplyReturn
    \/ Return

Spec == Init /\ [][Next]_vars

\* the steps schedule and schedule_one take on their own, without the remote side
LocalStep ==
    \/ ScheduleOneSerializeError
    \/ ScheduleOneNoNode
    \/ ScheduleOneDispatch
    \/ Return

\* The batch call as a running task: the executor keeps polling it, so a local
\* step that can be taken is taken, and every apply_resource call that was
\* issued comes back.
SpecLive == Init /\ [][Next]_vars /\ WF_vars(LocalStep) /\ WF_vars(ApplyReturn)

----------------------------------------------------------------------------
(* The detail text on its own: one resource, applied on one node, with     *)
(* apply_resource returning any short stdout and stderr                    *)

\* characters per returned text
MaxText == 2

TextChars == { "a", NL, "\\" }

Texts == UNION { [1..n -> TextChars] : n \in 0..MaxText }

TextOutcomes ==
    { [ok |-> TRUE, stdout |-> o, stderr |-> e] : o \in Texts, e \in Texts }

InitDetail ==
    /\ state = [nodes |-> <<NodeStateOf(1, HostInfoOf(Some(<<>>)))>>]
    /\ objects = <<Resource("Pod", Some("web"), Some("default"), TRUE)>>
    /\ conns = NodeNames(state)
    /\ results = <<>>
    /\ plans = <<>>
    /\ calls = <<>>
    /\ pc = "loop"

NextDetail ==
    \/ ScheduleOneDispatch
    \/ ApplyReturnWith(TextOutcomes)
    \/ Return

SpecDetail == InitDetail /\ [][NextDetail]_vars

----------------------------------------------------------------------------
(* FileStore (src/src/filestore.rs) over a directory tree.                 *)
(* A path is the sequence of its separators and names. In SpecStore,       *)
(* `state` is the tree: the directories that exist and the contents of the *)
(* files that exist; `calls` holds the last FileStore call with the tree   *)
(* it was made on, and `results` what that call returned.                  *)

Sep == "/"

base_path == <<Sep, "var", Sep, "lib", Sep, "skate", Sep, "store">>

RECURSIVE extend(_, _)
\* PathBuf::extend: every part is pushed after a separator
extend(path, parts) ==
    IF parts = <<>> THEN path ELSE extend(path \o <<Sep, Head(parts)>>, Tail(parts))

get_path(parts) == extend(base_path, parts)

\* the objects the store is used for, as <<object_type, object_name>>
StoreObjects == { <<"ingress", "web.default">>, <<"ingress", "api.default">> }

FileNames == { "80.conf", "443.conf" }

FileContents == { <<>>, <<"x">> }

EmptyTree == [dirs |-> {}, files |-> [p \in {} |-> <<>>]]

\* the directory `dir` with every directory above it
Ancestors(dir) == { SubSeq(dir, 1, 2 * n) : n \in 1..(Len(dir) \div 2) }

IsUnder(path, dir) ==
    Len(path) > Len(dir) /\ SubSeq(path, 1, Len(dir)) = dir /\ path[Len(dir) + 1] = Sep

WithoutFiles(tree, gone) ==
    [tree EXCEPT !.files = [p \in DOMAIN tree.files \ gone |-> tree.files[p]]]

WithFile(tree, path, bytes) ==
    [tree EXCEPT !.files = [p \in DOMAIN tree.files \cup {path} |->
                                IF p = path THEN bytes ELSE tree.files[p]]]

\* std::path::Path::exists
path_exists(tree, path) == path \in DOMAIN tree.files \/ path \in tree.dirs

Ok(value) == [ok |-> TRUE, value |-> value]

Err(context) == [ok |-> FALSE, err |-> context]

\* what std::fs::create_dir_all(dir) may do: Ok with the directories made, or an error
create_dir_all(tree, dir) ==
    { [result |-> Ok("unit"), tree |-> [tree EXCEPT !.dirs = @ \cup Ancestors(dir)]],
      [result |-> Err("io"), tree |-> tree] }

\* open_truncate without truncate(true): an existing file keeps its contents
open_keeps_contents(tree, path) ==
    { [result |-> Ok("file"),
       tree |-> IF path \in DOMAIN tree.files THEN tree ELSE WithFile(tree, path, <<>>)],
      [result |-> Err("io"), tree |-> tree] }

\* OpenOptions write/create/truncate .open(path): Ok with the file emptied, or an error
open_truncate(tree, path) ==
    { [result |-> Ok("file"), tree |-> WithFile(tree, path, <<>>)],
      [result |-> Err("io"), tree |-> tree] }

\* file.write_all(bytes) on the file just opened: Ok with the bytes written from
\* the start of the file, or an error with the file as open left it
write_all(tree, path, bytes) ==
    { [result |-> Ok("unit"),
       tree |-> WithFile(tree, path,
                    bytes \o SubSeq(tree.files[path], Len(bytes) + 1, Len(tree.files[path])))],
      [result |-> Err("io"), tree |-> tree] }

\* std::fs::remove_file(path): NotFound for a missing file, else Ok or another error
fs_remove_file(tree, path) ==
    IF path \notin DOMAIN tree.files
    THEN { [result |-> Err("NotFound"), tree |-> tree] }
    ELSE { [result |-> Ok("unit"), tree |-> WithoutFiles(tree, {path})],
           [result |-> Err("io"), tree |-> tree] }

\* std::fs::remove_dir_all(dir): NotFound for a missing directory; else Ok with the
\* directory and all under it gone, or another error with some of its files gone
fs_remove_dir_all(tree, dir) ==
    LET under == { p \in DOMAIN tree.files : IsUnder(p, dir) }
    IN  IF dir \notin tree.dirs
        THEN { [result |-> Err("NotFound"), tree |-> tree] }
        ELSE { [result |-> Ok("unit"),
                tree |-> [WithoutFiles(tree, under) EXCEPT !.dirs = @ \ {dir}]] }
             \cup { [result |-> Err("io"), tree |-> WithoutFiles(tree, gone)] :
                        gone \in SUBSET under }

\* write_file: the outcomes, each with the value returned and the tree left
write_file(tree, object_type, object_name, file_name, file_contents) ==
    LET dir == get_path(<<object_type, object_name>>)
        file_path == base_path \o <<Sep, object_type, Sep, object_name, Sep, file_name>>
    IN  UNION { IF made.result.ok
                THEN UNION { IF file.result.ok
                             THEN { IF written.result.ok
                                    THEN [result |-> Ok(file_path), tree |-> written.tree]
                                    ELSE [result |-> Err("failed to write"), tree |-> written.tree] :
                                    written \in write_all(file.tree, file_path, file_contents) }
                             ELSE { [result |-> Err("failed to create file"), tree |-> file.tree] } :
                             file \in open_truncate(made.tree, file_path) }
                ELSE { [result |-> Err("failed to create directory"), tree |-> made.tree] } :
                made \in create_dir_all(tree, dir) }

remove_file(tree, object_type, object_name, file_name) ==
    LET file_path == get_path(<<object_type, object_name, file_name>>)
    IN  { IF removed.result.ok
          THEN [result |-> Ok("unit"), tree |-> removed.tree]
          ELSE [result |-> Err("failed to remove file"), tree |-> removed.tree] :
          removed \in fs_remove_file(tree, file_path) }

exists_file(tree, object_type, object_name, file_name) ==
    path_exists(tree, get_path(<<object_type, object_name, file_name>>))

\* remove_object taking every error of remove_dir_all for a missing object
remove_object_any_error_is_false(tree, object_type, object_name) ==
    LET dir == get_path(<<object_type, object_name>>)
    IN  { IF removed.result.ok
          THEN [result |-> Ok(TRUE), tree |-> removed.tree]
          ELSE [result |-> Ok(FALSE), tree |-> removed.tree] :
          removed \in fs_remove_dir_all(tree, dir) }

remove_object(tree, object_type, object_name) ==
    LET dir == get_path(<<object_type, object_name>>)
    IN  { IF removed.result.ok
          THEN [result |-> Ok(TRUE), tree |-> removed.tree]
          ELSE IF removed.result.err = "NotFound"
               THEN [result |-> Ok(FALSE), tree |-> removed.tree]
               ELSE [result |-> Err("failed to remove directory"), tree |-> removed.tree] :
          removed \in fs_remove_dir_all(tree, dir) }

StoreCall(op, object, file_name, file_contents) ==
    [op |-> op, object_type |-> object[1], object_name |-> object[2],
     file_name |-> file_name, file_contents |-> file_contents, on |-> state]

InitStore ==
    /\ state = EmptyTree
    /\ conns = {}
    /\ objects = <<>>
    /\ results = <<>>
    /\ plans = <<>>
    /\ calls = <<>>
    /\ pc = "store"

WriteFile ==
    /\ pc = "store"
    /\ \E object \in StoreObjects, file_name \in FileNames, file_contents \in FileContents :
          /\ calls' = <<StoreCall("write_file", object, file_name, file_contents)>>
          /\ \E out \in write_file(state, object[1], object[2], file_name, file_contents) :
                /\ state' = out.tree
                /\ results' = <<out.result>>
    /\ UNCHANGED <<conns, objects, plans, pc>>

RemoveFile ==
    /\ pc = "store"
    /\ \E object \in StoreObjects, file_name \in FileNames :
          /\ calls' = <<StoreCall("remove_file", object, file_name, <<>>)>>
          /\ \E out \in remove_file(state, object[1], object[2], file_name) :
                /\ state' = out.tree
                /\ results' = <<out.result>>
    /\ UNCHANGED <<conns, objects, plans, pc>>

RemoveObject ==
    /\ pc = "store"
    /\ \E object \in StoreObjects :
          /\ calls' = <<StoreCall("remove_object", object, "", <<>>)>>
          /\ \E out \in remove_object(state, object[1], object[2]) :
                /\ state' = out.tree
                /\ results' = <<out.result>>
    /\ UNCHANGED <<conns, objects, plans, pc>>

NextStore ==
    \/ WriteFile
    \/ RemoveFile
    \/ RemoveObject

SpecStore == InitStore /\ [][NextStore]_vars

----------------------------------------------------------------------------
(* PodLister::list (src/src/get.rs). In SpecList, `state` is the snapshot, *)
(* `objects` holds the GetObjectArgs given and `results` the pods listed.  *)

\* GetObjectArgs: namespace: Option<String>, id: Option<IdCommand::Id(Vec<String>)>
GetObjectArgs(ns, id) == [namespace |-> ns, id |-> id]

ListFilters ==
    { GetObjectArgs(ns, id) :
        ns \in { None, Some(""), Some("default"), Some("other") },
        id \in { None, Some(<<>>), Some(<<"web">>), Some(<<"p1">>), Some(<<"api-2", "web">>) } }

\* the closure given to find: the namespace label equals a non-empty namespace
\* filter, or the id or name equals the first id given
filter_matches(filters, p) ==
    LET ns == UnwrapOr(filters.namespace, "")
        id == IF filters.id = None THEN ""
              ELSE IF Unwrap(filters.id) = <<>> THEN "" ELSE Head(Unwrap(filters.id))
    IN  \/ ns # "" /\ LabelOr(p, NamespaceLabel, "") = ns
        \/ id # "" /\ (p.id = id \/ p.name = id)

RECURSIVE find(_, _)
\* Iterator::find: the first pod of the list that matches, if any
find(pods, filters) ==
    IF pods = <<>> THEN None
    ELSE IF filter_matches(filters, Head(pods)) THEN Some(Head(pods))
    ELSE find(Tail(pods), filters)

\* the closure given to filter_map: None without host_info or system_info
node_listed(n, filters) ==
    IF n.host_info = None THEN None
    ELSE IF Unwrap(n.host_info).system_info = None THEN None
    ELSE find(UnwrapOr(Unwrap(Unwrap(n.host_info).system_info).pods, <<>>), filters)

RECURSIVE list_from(_, _, _)
list_from(filters, st, i) ==
    IF i > Len(st.nodes) THEN <<>>
    ELSE node_listed(st.nodes[i], filters) \o list_from(filters, st, i + 1)

list(filters, st) == list_from(filters, st, 1)

InitList ==
    /\ state \in LocSnapshots
    /\ objects \in { <<f>> : f \in ListFilters }
    /\ conns = NodeNames(state)
    /\ results = <<>>
    /\ plans = <<>>
    /\ calls = <<>>
    /\ pc = "list"

List ==
    /\ pc = "list"
    /\ results' = list(objects[1], state)
    /\ pc' = "listed"
    /\ UNCHANGED <<state, conns, objects, plans, calls>>

NextList == List

SpecList == InitList /\ [][NextList]_vars

----------------------------------------------------------------------------
(* Properties of the placement decision *)

\* a node's load: the pod instances its telemetry lists, 0 when telemetry is absent
Load(node) == Len(PodsOf(node))

TelemetryAbsent(node) == prev_pods(node) = None

NodeIndexes == 1..Len(state.nodes)

IsMinLoad(i) == \A j \in NodeIndexes : Load(state.nodes[i]) <= Load(state.nodes[j])

\* the last node, in snapshot order, among those of minimum load
LastMinIndex == CHOOSE i \in NodeIndexes : IsMinLoad(i) /\ \A j \in NodeIndexes : IsMinLoad(j) => j <= i

\* C1: with at least one node in the snapshot, the node plan returns as `next`
\* has the minimum load over all snapshot nodes (absent telemetry counting as 0).
C1_NextHasMinimumLoad ==
    \A k \in Planned :
        Len(state.nodes) >= 1 =>
            /\ IsSome(PlanAt(k).next)
            /\ \A j \in NodeIndexes : Load(Unwrap(PlanAt(k).next)) <= Load(state.nodes[j])

\* C2: when several nodes tie at the minimum load, `next` is the last of them
\* in snapshot order, with or without a currently-hosting node.
C2_LastMinimumWins ==
    \A k \in Planned :
        Cardinality({ i \in NodeIndexes : IsMinLoad(i) }) >= 2 =>
            /\ IsSome(PlanAt(k).next)
            /\ Unwrap(PlanAt(k).next) = state.nodes[LastMinIndex]

\* the snapshot with node i reporting an empty pod list instead of no telemetry
WithEmptyPods(st, i) ==
    [st EXCEPT !.nodes[i].host_info = HostInfoOf(Some(<<>>))]

\* C3: a node with absent telemetry is treated exactly as a node of load 0:
\* giving it an empty pod list instead does not change the node selected, and
\* as the running best it is kept against every candidate of load above 0.
C3_AbsentTelemetryIsLoadZero ==
    \A k \in Planned :
        \A i \in NodeIndexes :
            TelemetryAbsent(state.nodes[i]) =>
                /\ IsSome(PlanAt(k).next)
                /\ LET twin == select_next(WithEmptyPods(state, i), current_node(PlanAt(k).current))
                   IN  Unwrap(twin).node_name = Unwrap(PlanAt(k).next).node_name
                /\ \A j \in NodeIndexes :
                        node_pods(state.nodes[j]) > 0 =>
                            fold_step(Some(state.nodes[i]), state.nodes[j]) = Some(state.nodes[i])

\* C4: `next` is absent exactly when the snapshot has no node.
C4_NextAbsentIffNoNodes ==
    \A k \in Planned : (PlanAt(k).next = None) <=> (Len(state.nodes) = 0)

\* a plan was computed over a snapshot of several nodes, none with telemetry, and has a `next`
C4_Witness ==
    \E k \in Planned :
        /\ Len(state.nodes) >= 2
        /\ \A i \in NodeIndexes : TelemetryAbsent(state.nodes[i])
        /\ IsSome(PlanAt(k).next)

\* the pod instances, as <<node index, pod index>>, that are a copy of the resource
Matching(object) ==
    LET name == IF object.metadata.name = None THEN "" ELSE object.metadata.name[1]
        ns == IF object.metadata.namespace = None THEN "" ELSE object.metadata.namespace[1]
    IN  { m \in NodeIndexes \X (1..Len(PodPool)) :
            /\ m[2] <= Len(PodsOf(state.nodes[m[1]]))
            /\ LET pod == PodsOf(state.nodes[m[1]])[m[2]]
               IN  /\ LabelOr(pod, NamespaceLabel, "") = ns
                   /\ IF object.kind = "Pod" THEN pod.name = name
                      ELSE LabelOr(pod, DeploymentLabel, "") = name }

\* C5: plan.current is None for a resource matching no pod instance on any
\* node; a located resource is one that matches, on a node of the snapshot.
C5_LocateAbsentWithoutMatch ==
    \A k \in Planned :
        /\ Matching(objects[k]) = {} => PlanAt(k).current = None
        /\ IsSome(PlanAt(k).current) =>
              /\ Matching(objects[k]) # {}
              /\ \E i \in NodeIndexes : Unwrap(PlanAt(k).current).node = state.nodes[i]

\* a resource with no copy was planned over a snapshot that lists pod instances
C5_Witness ==
    \E k \in Planned :
        /\ Matching(objects[k]) = {}
        /\ \E i \in NodeIndexes : Load(state.nodes[i]) > 0
        /\ PlanAt(k).current = None

\* C6: for a Deployment, the located resource holds every pod instance, on
\* every node, whose deployment and namespace labels equal the resource's name
\* and namespace, and nothing else.
C6_DeploymentGroupsAllInstances ==
    \A k \in Planned :
        objects[k].kind = "Deployment" =>
            LET m == Matching(objects[k])
                cur == PlanAt(k).current
            IN  /\ (cur = None) <=> (m = {})
                /\ IsSome(cur) =>
                      /\ Unwrap(cur).kind = "Deployment"
                      /\ Len(Unwrap(cur).resource) = Cardinality(m)
                      /\ { Unwrap(cur).resource[x] : x \in 1..Len(Unwrap(cur).resource) }
                            = { PodsOf(state.nodes[e[1]])[e[2]] : e \in m }

\* three instances of one Deployment, two on one node and one on another, located as one group
C6_Witness ==
    \E k \in Planned :
        /\ objects[k].kind = "Deployment"
        /\ IsSome(PlanAt(k).current)
        /\ Len(Unwrap(PlanAt(k).current).resource) = 3
        /\ \E a, b \in NodeIndexes :
              /\ a # b
              /\ Cardinality({ e \in Matching(objects[k]) : e[1] = a }) = 2
              /\ Cardinality({ e \in Matching(objects[k]) : e[1] = b }) = 1

----------------------------------------------------------------------------
(* Properties of the dispatcher *)

Handled == 1..Len(results)

CallsFor(k) == { c \in 1..Len(calls) : calls[c].idx = k }

\* C7: a resource that fails serialization gets Status=Error with the
\* serialization message and an empty node name; no plan is computed and no
\* Fleet call is made for it.
C7_SerializationFailureShortCircuits ==
    \A k \in Handled :
        ~objects[k].serializes =>
            /\ results[k].status = [tag |-> "Error", text |-> "serialization failed"]
            /\ results[k].node_name = ""
            /\ results[k].object = objects[k]
            /\ plans[k] = None
            /\ CallsFor(k) = {}

\* a resource failed serialization in a batch whose other resource reached the Fleet
C7_Witness ==
    \E k \in Handled :
        /\ ~objects[k].serializes
        /\ results[k].status.tag = "Error"
        /\ \E c \in 1..Len(calls) : calls[c].op = "apply_resource"

\* C8: a resource whose plan has no `next` gets
\* Status=Error("failed to find schedulable node") with an empty node name and
\* no Fleet call, and the batch goes on: it ends only with a result for every
\* resource.
C8_NoNodeShortCircuits ==
    \A k \in Handled :
        (IsSome(plans[k]) /\ PlanAt(k).next = None) =>
            /\ results[k].status = [tag |-> "Error", text |-> "failed to find schedulable node"]
            /\ results[k].node_name = ""
            /\ CallsFor(k) = {}
            /\ pc # "panicked"
            /\ pc = "returned" => Len(results) = Len(objects)

\* the first resource of a batch found no node, and the batch went on to the second
C8_Witness ==
    /\ Len(results) >= 2
    /\ IsSome(plans[1])
    /\ PlanAt(1).next = None
    /\ results[1].status.tag = "Error"
    /\ pc = "returned"

\* C9: when plan.current is present, a removal on the previous node's channel
\* is issued through the Fleet before the apply call of that resource.
C9_RemovalBeforeApply ==
    \A c \in 1..Len(calls) :
        (calls[c].op = "apply_resource" /\ IsSome(PlanAt(calls[c].idx).current)) =>
            \E r \in 1..(c - 1) :
                /\ calls[r].op = "remove_resource"
                /\ calls[r].idx = calls[c].idx
                /\ calls[r].node = Unwrap(PlanAt(calls[c].idx).current).node.node_name

\* the positions in `calls` of the calls and returns of one kind
CallsOf(op) == { c \in 1..Len(calls) : calls[c].op = op }

\* C11: when find has no channel for the selected node, no apply call is
\* issued for that resource, it does not end as Scheduled, and the batch does
\* not fail as a whole.
C11_MissingChannelConfined ==
    \A c \in CallsOf("find") :
        calls[c].node \notin conns =>
            /\ \A a \in CallsOf("apply_resource") : calls[a].idx # calls[c].idx
            /\ calls[c].idx \in Handled => results[calls[c].idx].status.tag # "Scheduled"
            /\ pc # "panicked"

\* C12: a resource that reached the dispatch step is Scheduled exactly when
\* apply_resource returned (stdout, stderr), and is Error with the failure's
\* message exactly when apply_resource returned a failure.
C12_StatusFollowsApply ==
    /\ \A r \in CallsOf("apply_resource_return") :
          LET k == calls[r].idx
          IN  /\ k \in Handled
              /\ (results[k].status.tag = "Scheduled") <=> calls[r].result.ok
              /\ (results[k].status = [tag |-> "Error", text |-> "apply failed"])
                    <=> ~calls[r].result.ok
    /\ \A k \in Handled :
          (\E a \in CallsOf("apply_resource") : calls[a].idx = k)
              => \E r \in CallsOf("apply_resource_return") : calls[r].idx = k

\* one resource of a batch was Scheduled by a successful apply, another got the apply failure
C12_Witness ==
    \E r1, r2 \in CallsOf("apply_resource_return") :
        /\ calls[r1].result.ok
        /\ ~calls[r2].result.ok
        /\ results[calls[r1].idx].status.tag = "Scheduled"
        /\ results[calls[r2].idx].status.tag = "Error"

\* C14: a result's node name is empty exactly when the resource was cut short
\* before dispatch (serialization failure or no `next`), and is otherwise the
\* name of the node the plan selected, whether the apply succeeded or failed.
C14_NodeNameOfResult ==
    \A k \in Handled :
        LET short == plans[k] = None \/ PlanAt(k).next = None
        IN  /\ (results[k].node_name = "") <=> short
            /\ ~short => results[k].node_name = Unwrap(PlanAt(k).next).node_name

\* a batch with a result cut short and a result of a failed apply that names its node
C14_Witness ==
    \E j, k \in Handled :
        /\ plans[j] = None
        /\ results[j].node_name = ""
        /\ IsSome(plans[k])
        /\ IsSome(PlanAt(k).next)
        /\ results[k].status.tag = "Error"
        /\ results[k].node_name = Unwrap(PlanAt(k).next).node_name
        /\ results[k].node_name # ""

\* a text with each line break written as the two characters \ and n
RECURSIVE EscapedUpTo(_, _)
EscapedUpTo(text, n) ==
    IF n = 0 THEN <<>>
    ELSE EscapedUpTo(text, n - 1) \o (IF text[n] = NL THEN <<"\\", "n">> ELSE <<text[n]>>)

Escaped(text) == EscapedUpTo(text, Len(text))

\* C13: the Scheduled detail is stdout alone when stderr is empty and stdout
\* followed by " ( stderr: <stderr> )" otherwise, with every line break of
\* stdout and of stderr written as \ and n: the detail holds no line break.
C13_DetailIsOneLine ==
    \A r \in CallsOf("apply_resource_return") :
        calls[r].result.ok =>
            LET out == calls[r].result.stdout
                err == calls[r].result.stderr
                detail == results[calls[r].idx].status.text
            IN  /\ \A i \in 1..Len(detail) : detail[i] # NL
                /\ err = <<>> => detail = Escaped(out)
                /\ err # <<>> =>
                      detail = Escaped(out)
                                 \o <<" ", "(", " ", "s", "t", "d", "e", "r", "r", ":", " ">>
                                 \o Escaped(err) \o <<" ", ")">>

\* an apply returned line breaks in stdout and in stderr and the resource is Scheduled
C13_Witness ==
    \E r \in CallsOf("apply_resource_return") :
        /\ calls[r].result.ok
        /\ \E i \in 1..Len(calls[r].result.stdout) : calls[r].result.stdout[i] = NL
        /\ \E i \in 1..Len(calls[r].result.stderr) : calls[r].result.stderr[i] = NL
        /\ results[calls[r].idx].status.tag = "Scheduled"

----------------------------------------------------------------------------
(* Properties of the batch *)

\* the batch call is over, with a result list or without
Over == pc \in {"returned", "panicked"}

\* the returns of apply_resource for resource k
ReturnsFor(k) ==
    { r \in 1..Len(calls) : calls[r].idx = k /\ calls[r].op = "apply_resource_return" }

AppliesFor(k) ==
    { a \in 1..Len(calls) : calls[a].idx = k /\ calls[a].op = "apply_resource" }

\* resource k failed on its own: serialization, placement or apply
OwnFailure(k) ==
    \/ ~objects[k].serializes
    \/ IsSome(plans[k]) /\ PlanAt(k).next = None
    \/ \E r \in ReturnsFor(k) : ~calls[r].result.ok

\* C15: with a channel for every snapshot node, schedule returns one result
\* per input resource, in input order.
C15_OneResultPerResource ==
    conns = NodeNames(state) =>
        /\ pc # "panicked"
        /\ Len(results) <= Len(objects)
        /\ \A i \in Handled : results[i].object = objects[i]
        /\ pc = "returned" => Len(results) = Len(objects)

\* three resources, the second failing its apply: three results in input order
C15_Witness ==
    /\ conns = NodeNames(state)
    /\ pc = "returned"
    /\ Len(results) = 3
    /\ objects[1] # objects[2]
    /\ results[1].status.tag = "Scheduled"
    /\ results[2].status.tag = "Error"
    /\ ReturnsFor(2) # {}
    /\ results[3].status.tag = "Scheduled"

\* C16: after a resource that ends in Status=Error every later resource of
\* the batch is still passed through the Dispatcher, and each resource's Status
\* comes from its own serialization, plan and apply outcome only.
C16_ErrorNeverStopsLater ==
    /\ \A k \in Handled :
          (results[k].status.tag = "Error" /\ Over) =>
              \A j \in (k + 1)..Len(objects) : j <= Len(plans)
    /\ \A k \in Handled : (results[k].status.tag = "Error") <=> OwnFailure(k)

\* C17: whatever the serialization, placement and apply failures of the
\* resources, the batch call returns the result list and no batch-level
\* error; a failure shows only in the Status of its own resource.
C17_BatchReportsSuccess ==
    (\A c \in CallsOf("find") : calls[c].node \in conns) =>
        /\ pc \in {"loop", "apply", "returned"}
        /\ (pc = "loop" /\ Current > Len(objects)) => ENABLED Return
        /\ pc = "returned" => Len(results) = Len(objects)
        /\ \A k \in Handled : (results[k].status.tag = "Error") <=> OwnFailure(k)

\* a batch with a serialization, a placement-free apply failure and a success has returned
C17_Witness ==
    /\ pc = "returned"
    /\ Len(results) = 3
    /\ \E i, j, k \in Handled :
          /\ ~objects[i].serializes
          /\ \E r \in ReturnsFor(j) : ~calls[r].result.ok
          /\ results[k].status.tag = "Scheduled"

\* C18: one remote call at a time: an apply call is followed by its own
\* return before any other call, calls go through the resources in input
\* order, and apply calls are issued in input order.
C18_OneAtATime ==
    /\ \A a \in CallsOf("apply_resource") :
          a < Len(calls) =>
              /\ calls[a + 1].op = "apply_resource_return"
              /\ calls[a + 1].idx = calls[a].idx
    /\ \A c \in 1..(Len(calls) - 1) : calls[c].idx <= calls[c + 1].idx
    /\ \A k \in 1..Len(objects) : Cardinality(AppliesFor(k)) <= 1
    /\ LET inflight == Cardinality(CallsOf("apply_resource"))
                          - Cardinality(CallsOf("apply_resource_return"))
       IN  /\ inflight \in {0, 1}
           /\ (inflight = 1) <=> (pc = "apply")

\* the apply of the first resource returned before the find of the second, whose apply is in flight
C18_Witness ==
    /\ pc = "apply"
    /\ AppliesFor(1) # {}
    /\ ReturnsFor(1) # {}
    /\ AppliesFor(2) # {}
    /\ ReturnsFor(2) = {}

\* C19: the snapshot is never modified, and every resource of the batch is
\* planned from it as it was given: equal starting nodes give equal targets,
\* whatever was placed earlier in the batch.
C19_SnapshotUnchanged ==
    /\ [][state' = state]_vars
    /\ [](\A k \in Planned :
            /\ PlanAt(k) \in plan(state, objects[k])
            /\ \A j \in Planned :
                  current_node(PlanAt(j).current) = current_node(PlanAt(k).current)
                      => PlanAt(j).next = PlanAt(k).next)

\* two resources were Scheduled on the same node of a snapshot in which another node had no more load
C19_Witness ==
    /\ Len(results) >= 2
    /\ results[1].status.tag = "Scheduled"
    /\ results[2].status.tag = "Scheduled"
    /\ results[1].node_name = results[2].node_name
    /\ \E i, j \in NodeIndexes :
          /\ i # j
          /\ state.nodes[i].node_name = results[1].node_name
          /\ Load(state.nodes[j]) <= Load(state.nodes[i])

\* C20: apply_resource is called at most once per resource, exactly once
\* when serialization succeeded and the target node has a channel; a failed
\* apply is the resource's Status=Error, with no further call for it.
C20_NoRetry ==
    \A k \in 1..Len(plans) :
        /\ Cardinality(AppliesFor(k)) <= 1
        /\ Cardinality(ReturnsFor(k)) <= 1
        /\ (Cardinality(AppliesFor(k)) = 1) <=>
              /\ objects[k].serializes
              /\ IsSome(plans[k])
              /\ IsSome(PlanAt(k).next)
              /\ Unwrap(PlanAt(k).next).node_name \in conns
        /\ \A r \in ReturnsFor(k) :
              ~calls[r].result.ok =>
                  /\ k \in Handled
                  /\ results[k].status = [tag |-> "Error", text |-> "apply failed"]
                  /\ \A c \in (r + 1)..Len(calls) : calls[c].idx # k

\* an apply failed on a snapshot with another node to try, and the resource ended as Error after one call
C20_Witness ==
    \E k \in Handled :
        /\ Len(state.nodes) >= 2
        /\ \E r \in ReturnsFor(k) : ~calls[r].result.ok
        /\ Cardinality(AppliesFor(k)) = 1
        /\ results[k].status.tag = "Error"
        /\ pc = "returned"

\* C21: when every issued apply_resource call returns, the batch call
\* returns with a result for every input resource; and while an apply call
\* has not returned nothing else can happen: no local step, no timeout, no
\* result for the resource at hand or a later one.
C21_ReturnsWhenCallsReturn ==
    /\ <>(pc = "returned" /\ Len(results) = Len(objects))
    /\ [](pc = "apply" => (~ENABLED LocalStep /\ Len(results) < Len(objects)))

----------------------------------------------------------------------------
(* More properties of the placement decision *)

\* C22: a plan is the located resource together with the scan of all nodes
\* started from its node, and the node selected does not depend on where the
\* scan starts: from any node of the snapshot it ends where the scan from
\* absent ends, so all resources planned over one snapshot get the same target.
C22_NextIndependentOfStart ==
    \A k \in Planned :
        /\ PlanAt(k).current \in existing_resource(state, objects[k])
        /\ PlanAt(k).next = select_next(state, current_node(PlanAt(k).current))
        /\ \A i \in NodeIndexes : select_next(state, Some(state.nodes[i])) = PlanAt(k).next
        /\ select_next(state, None) = PlanAt(k).next

\* a located resource on a node with fewer pods than the first node, planned onto another node
C22_Witness ==
    \E k \in Planned :
        /\ IsSome(PlanAt(k).current)
        /\ IsSome(PlanAt(k).next)
        /\ Unwrap(PlanAt(k).next) # Unwrap(PlanAt(k).current).node
        /\ \E i \in NodeIndexes :
              /\ i > 1
              /\ Unwrap(PlanAt(k).current).node = state.nodes[i]
              /\ ~TelemetryAbsent(state.nodes[i])
              /\ Load(state.nodes[i]) < Load(state.nodes[1])

\* C23: every apply call goes to the client found for the node named in the
\* resource's result, a node of the snapshot, with the serialized manifest of
\* that resource; a resource is Scheduled only after such a call was issued
\* and returned success.
C23_ApplyMatchesResult ==
    /\ \A a \in CallsOf("apply_resource") :
          LET k == calls[a].idx
          IN  /\ serialized(objects[k]).ok
              /\ calls[a].manifest = serialized(objects[k]).text
              /\ calls[a].node \in NodeNames(state)
              /\ calls[a].node \in conns
              /\ a > 1 /\ calls[a - 1] = FindCall(k, calls[a].node)
              /\ k \in Handled => results[k].node_name = calls[a].node
    /\ \A k \in Handled :
          results[k].status.tag = "Scheduled" =>
              \E a \in AppliesFor(k), r \in ReturnsFor(k) :
                  /\ a < r
                  /\ calls[r].result.ok
                  /\ calls[r].node = calls[a].node
                  /\ calls[a].node = results[k].node_name

\* two different resources were applied on a two-node snapshot, one Scheduled and one refused
C23_Witness ==
    /\ Len(state.nodes) = 2
    /\ \E j, k \in Handled :
          /\ objects[j] # objects[k]
          /\ AppliesFor(j) # {}
          /\ AppliesFor(k) # {}
          /\ results[j].status.tag = "Scheduled"
          /\ results[k].status.tag = "Error"

\* the snapshot with the health status of node i set to f[i]
WithStatus(st, f) ==
    [nodes |-> [i \in 1..Len(st.nodes) |-> [st.nodes[i] EXCEPT !.status = f[i]]]]

\* every way to report the same number of pod instances as `node` does
SameCount(node) ==
    {HostInfoOf(Some(PodsOf(node)))}
        \cup (IF Load(node) = 0
               THEN { None, Some([system_info |-> None]), HostInfoOf(None) }
               ELSE {})

\* the snapshots with the nodes of st in the same order and with the same pod-instance counts
SameCounts(st) ==
    { [nodes |-> [i \in 1..Len(st.nodes) |-> [st.nodes[i] EXCEPT !.host_info = h[i]]]] :
        h \in { g \in [1..Len(st.nodes) -> UNION { SameCount(st.nodes[i]) : i \in 1..Len(st.nodes) }] :
                 \A i \in 1..Len(st.nodes) : g[i] \in SameCount(st.nodes[i]) } }

\* the start of the scan for plan k, taken from snapshot st2 instead of state
StartIn(st2, k) ==
    IF PlanAt(k).current = None THEN None
    ELSE Some(st2.nodes[CHOOSE i \in NodeIndexes :
                            state.nodes[i].node_name = Unwrap(PlanAt(k).current).node.node_name])

TargetName(next) == IF next = None THEN "" ELSE Unwrap(next).node_name

\* C24: the target depends on node order and pod-instance counts only: not on
\* health status, and not on anything else of a node's telemetry (absent
\* telemetry being a count of 0); a last node with absent telemetry or with
\* no pod instance is always the target.
C24_SelectionByOrderAndCounts ==
    \A k \in Planned :
        /\ \A f \in [NodeIndexes -> {"Healthy", "Unhealthy"}] :
              TargetName(select_next(WithStatus(state, f), StartIn(WithStatus(state, f), k)))
                  = TargetName(PlanAt(k).next)
        /\ \A st2 \in SameCounts(state) :
              TargetName(select_next(st2, StartIn(st2, k))) = TargetName(PlanAt(k).next)
        /\ (Len(state.nodes) >= 1 /\ Load(state.nodes[Len(state.nodes)]) = 0) =>
              PlanAt(k).next = Some(state.nodes[Len(state.nodes)])

----------------------------------------------------------------------------
(* Properties of FileStore *)

\* the last FileStore call, the tree it was made on and what it returned
Last == calls[1]

Before == calls[1].on

Returned == results[1]

LastWas(op) == calls # <<>> /\ Last.op = op

ObjectDir == get_path(<<Last.object_type, Last.object_name>>)

FilePath == get_path(<<Last.object_type, Last.object_name, Last.file_name>>)

C26_WriteFileClobbers ==
    /\ (LastWas("write_file") /\ Returned.ok) =>
          /\ Returned.value = FilePath
          /\ exists_file(state, Last.object_type, Last.object_name, Last.file_name)
          /\ state.files[FilePath] = Last.file_contents
          /\ DOMAIN state.files = DOMAIN Before.files \cup {FilePath}
          /\ \A p \in DOMAIN Before.files : p # FilePath => state.files[p] = Before.files[p]
    /\ (LastWas("remove_file")
            /\ ~exists_file(Before, Last.object_type, Last.object_name, Last.file_name)) =>
          /\ ~Returned.ok
          /\ state = Before

\* a file holding other, longer contents was overwritten, next to another file
\* of the same object and a file of another object
C26_Witness ==
    /\ LastWas("write_file")
    /\ Returned.ok
    /\ FilePath \in DOMAIN Before.files
    /\ Len(Before.files[FilePath]) > Len(Last.file_contents)
    /\ \E f \in FileNames \ {Last.file_name} :
          exists_file(state, Last.object_type, Last.object_name, f)
    /\ \E o \in StoreObjects, f \in FileNames :
          /\ o # <<Last.object_type, Last.object_name>>
          /\ exists_file(state, o[1], o[2], f)

----------------------------------------------------------------------------
(* Properties of PodLister *)

\* the pod instances of the snapshot, as <<node index, pod index>>, that match the filters given
ListMatches ==
    { m \in NodeIndexes \X (1..Len(PodPool)) :
        /\ m[2] <= Len(PodsOf(state.nodes[m[1]]))
        /\ LET pod == PodsOf(state.nodes[m[1]])[m[2]]
               ns == IF objects[1].namespace = None THEN "" ELSE objects[1].namespace[1]
               id == IF objects[1].id = None \/ objects[1].id = <<<<>>>> THEN ""
                     ELSE objects[1].id[1][1]
           IN  \/ ns # "" /\ NamespaceLabel \in DOMAIN pod.labels /\ pod.labels[NamespaceLabel] = ns
               \/ id # "" /\ (pod.id = id \/ pod.name = id) }

\* C27: list returns every pod instance of the snapshot that matches the
\* filters, all of them when several are on one node, and no pod instance
\* that does not match.
C27_ListReturnsAllMatches ==
    pc = "listed" =>
        /\ Len(results) = Cardinality(ListMatches)
        /\ \A m \in ListMatches :
              \E x \in 1..Len(results) : results[x] = PodsOf(state.nodes[m[1]])[m[2]]
        /\ \A x \in 1..Len(results) :
              \E m \in ListMatches : results[x] = PodsOf(state.nodes[m[1]])[m[2]]

====
